---- MODULE Spec2Model ----
(***************************************************************************)
(* Book-club recommender: the store (database.py), the constraint filter   *)
(* and the scoring engine (recommender.py).                                *)
(*                                                                         *)
(* Every function of database.py opens a connection of its own and closes  *)
(* it before it returns, so each database call is one atomic step and a    *)
(* call of get_recommendations is a sequence of such steps that writes of  *)
(* other sessions may interleave with.                                     *)
(*                                                                         *)
(* Numbers.  The engine computes in floating point; the model states the   *)
(* sub-scores exactly, in fixed units, and rounds the total as the doubles *)
(* of the engine round it:                                                 *)
(*   genre_match        a fraction [num, den] (= num/den points)           *)
(*   length_preference  an integer number of tenths of a point             *)
(*   member_interest    an integer number of points                        *)
(*   diversity_bonus    an integer number of points                        *)
(*   score (total)      an integer number of hundredths of a point         *)
(***************************************************************************)
EXTENDS Integers, Sequences, FiniteSets

\* ------------------------------------------------------------ bounds
\* Spec: the rows of the four tables, and the argument top_n.
MaxRows == 6
MaxTopN == 2
\* Spec: the round numbers passed to add_veto and mark_book_as_read.
MaxRound == 2
\* Spec: the writes of other sessions that commit while one call runs.
MaxWritesInCall == 1
\* Spec: the books import_bookclub_data.py adds (the ids it gives them).
MaxImported == 1
\* SpecDb: the rows of members, of books and of reading_history.
MaxDbMembers == 1
MaxDbBooks == 2
MaxDbHistory == 3
\* SpecConc: the rows other sessions write while one call runs.
MaxConcWrites == 3
\* SpecScore: the lengths of the lists passed to calculate_book_score.
MaxScoreMembers == 3
MaxScoreHistory == 4
MaxTiedHistory == 6
\* SpecScore: the length of one long member list (with 64 members of whom an
\* odd number like a genre, the exact total is halfway between two
\* hundredths).
ManyMembers == 64
\* SpecVeto: the add_veto calls of a run and the rounds they name.
MaxVetoCalls == 3
MaxVetoRound == 2

\* ------------------------------------------------------------ inputs
\* None: the suggested_by column is nullable (member ids start at 1).
NULL == 0

Genres == {"Fantasy", "Mystery"}

\* Every genre a book of the model has, in the order sorted() puts them.
SortedGenres == <<"Fantasy", "Mystery", "Unspecified">>

\* (genre, page_count, suggested_by) of the books added with the form of
\* app.py: one without a suggester, one with the first member as suggester.
BookInputs ==
    { [genre |-> "Fantasy", page_count |-> 310, suggested_by |-> NULL],
      [genre |-> "Mystery", page_count |-> 310, suggested_by |-> 1] }

\* The round numbers the callers of add_veto and mark_book_as_read pass: a
\* value get_current_round() returned to a page (app.py lines 180, 209, 251)
\* or the literals of demo_data.py (lines 94, 99).  The page writes what it
\* read earlier, on a connection of its own, and other sessions write and
\* reset in between (and any number of pages run), so the round it passes is
\* not tied to the store it commits to: it is any round some store has had.
RoundInputs == 1..MaxRound

\* SpecDb: the round numbers of direct calls of mark_book_as_read and
\* add_veto; the column is INTEGER NOT NULL and the functions pass on what
\* they are given.
DbRoundInputs == (-1)..2

\* The genres a page offers for a veto (app.py lines 193, 203): those of the
\* books of the pool it read, which is not the pool it commits to.
VetoGenres == Genres \cup {"Unspecified"}

\* The page count batch_update_page_counts() is given for a book.
PageInputs == {310}

\* The values of top_n: the small ones, and the default, which app.py passes.
DEFAULT_TOP_N == 10

TopNs == (1..MaxTopN) \cup {DEFAULT_TOP_N}

\* (preferred_length, liked_genres) of the members added.
MemberInputs ==
    { [preferred_length |-> 350, liked_genres |-> <<"Fantasy">>] }

\* ------------------------------------------------------------ state
VARIABLES
    members,          \* table members (+ member_genre_preferences), by id
    books,            \* table books, by id
    reading_history,  \* table reading_history
    vetoes,           \* table vetoes
    pc,               \* where the call of get_recommendations stands
    all_books,        \* its locals
    members_r,
    history_r,
    current_round,
    last_2_genres,
    vetoed_genres,
    eligible_books,
    top_n,
    result,           \* the list it returns
    arg_book,         \* a direct call of a scoring function: its arguments
    arg_members,
    arg_history,
    ret,              \* what a direct call returned (<<>>: none pending)
    veto_calls,       \* the add_veto calls made so far (kept by SpecVeto)
    stores_seen,      \* the store contents that have existed since the
                      \* running call began (kept by SpecConc)
    conc_writes,      \* the writes committed since the running call began
    tables_exist      \* FALSE between the DROP TABLEs of reset_database()
                      \* and the CREATE TABLEs of init_db()

store == <<members, books, reading_history, vetoes>>
locals == <<all_books, members_r, history_r, current_round, last_2_genres,
            vetoed_genres, eligible_books, top_n, result>>
call == <<arg_book, arg_members, arg_history, ret, veto_calls, stores_seen>>
env == <<conc_writes, tables_exist>>
vars == <<members, books, reading_history, vetoes, pc, all_books, members_r,
          history_r, current_round, last_2_genres, vetoed_genres,
          eligible_books, top_n, result, arg_book, arg_members, arg_history,
          ret, veto_calls, stores_seen, conc_writes, tables_exist>>

\* ------------------------------------------------------------ helpers
Range(s) == { s[i] : i \in 1..Len(s) }

Min(a, b) == IF a <= b THEN a ELSE b

Max(a, b) == IF a >= b THEN a ELSE b

Abs(x) == IF x >= 0 THEN x ELSE -x

SetMax(S) == CHOOSE x \in S : \A y \in S : y <= x

Rows == Len(members) + Len(books) + Len(reading_history) + Cardinality(vetoes)

\* ------------------------------------------------------------ database.py
\* A table is a multiset of rows.  books and members are kept by id (the
\* order SELECT returns them in).  No query reads the id or the insertion
\* order of a row of reading_history, so that table is kept as the sequence
\* of its rows (book_id, round_number) sorted by round_number, then book_id.
\* vetoes holds at most one row per (member_id, round_number) and is a set.

\* SELECT b.* FROM books b
get_books == books

\* SELECT * FROM members, each with its liked_genres
get_members == members

\* Mutant of get_current_round: COUNT(*) for MAX(round_number).
get_current_round_Count == Len(reading_history) + 1

\* (MAX(round_number) or 0) + 1
get_current_round ==
    IF Len(reading_history) = 0 THEN 1
    ELSE SetMax({ reading_history[i].round_number
                    : i \in 1..Len(reading_history) }) + 1

\* A row of reading_history joined with its book (rh.*, b.genre, ...).
JoinedRow(rh) ==
    [book_id |-> rh.book_id, round_number |-> rh.round_number,
     genre |-> books[rh.book_id].genre]

\* The results ORDER BY rh.round_number DESC may give for the rows I (indices
\* into reading_history): every order with non-increasing round numbers (SQL
\* leaves the order of rows with equal round numbers open).
RECURSIVE RoundDescOrders(_)
RoundDescOrders(I) ==
    IF I = {} THEN { <<>> }
    ELSE LET top == SetMax({ reading_history[i].round_number : i \in I })
         IN UNION { { <<JoinedRow(reading_history[i])>> \o rest
                        : rest \in RoundDescOrders(I \ {i}) }
                    : i \in { j \in I : reading_history[j].round_number = top } }

\* get_reading_history(): the lists it may return.
get_reading_history == RoundDescOrders(1..Len(reading_history))

\* get_last_n_genres(n): the lists it may return (ORDER BY ... DESC LIMIT n).
get_last_n_genres(n) ==
    { [i \in 1..Min(n, Len(h)) |-> h[i].genre]
        : h \in RoundDescOrders(1..Len(reading_history)) }

\* Mutant of get_vetoes: the vetoes of the round before the one asked for.
get_vetoes_PreviousRound(round_number) ==
    { v.genre : v \in { w \in vetoes : w.round_number = round_number - 1 } }

\* get_vetoes(round_number): the genres vetoed for that round.
get_vetoes(round_number) ==
    { v.genre : v \in { w \in vetoes : w.round_number = round_number } }

\* INSERT INTO members ... (+ one row of member_genre_preferences per genre)
add_member(preferred_length, liked_genres) ==
    /\ members' = Append(members,
                         [id |-> Len(members) + 1,
                          preferred_length |-> preferred_length,
                          liked_genres |-> liked_genres])
    /\ UNCHANGED <<books, reading_history, vetoes>>

\* INSERT INTO books ...; suggested_by REFERENCES members(id) or is NULL.
add_book(genre, page_count, suggested_by) ==
    /\ suggested_by = NULL \/ suggested_by \in 1..Len(members)
    /\ books' = Append(books,
                       [id |-> Len(books) + 1, genre |-> genre,
                        page_count |-> page_count,
                        suggested_by |-> suggested_by])
    /\ UNCHANGED <<members, reading_history, vetoes>>

\* Mutant of VetoesAfter: the INSERT without the DELETE before it.
VetoesAfter_InsertOnly(member_id, genre, round_number) ==
    vetoes \cup { [member_id |-> member_id, genre |-> genre,
                   round_number |-> round_number] }

\* The rows of vetoes after DELETE (the member's veto of that round) and
\* INSERT (the new one).
VetoesAfter(member_id, genre, round_number) ==
    { v \in vetoes : ~(v.member_id = member_id
                        /\ v.round_number = round_number) }
      \cup { [member_id |-> member_id, genre |-> genre,
              round_number |-> round_number] }

\* add_veto; member_id REFERENCES members(id).
add_veto(member_id, genre, round_number) ==
    /\ member_id \in 1..Len(members)
    /\ vetoes' = VetoesAfter(member_id, genre, round_number)
    /\ UNCHANGED <<members, books, reading_history>>

\* The table with one more row, at its place in the sorted sequence.
InsertRow(table, row) ==
    LET k == Cardinality({ i \in 1..Len(table) :
                 \/ table[i].round_number < row.round_number
                 \/ /\ table[i].round_number = row.round_number
                    /\ table[i].book_id <= row.book_id })
    IN SubSeq(table, 1, k) \o <<row>> \o SubSeq(table, k + 1, Len(table))

\* Mutant of mark_book_as_read: the book's earlier entries are deleted before
\* the INSERT (one entry per book).
mark_book_as_read_Replace(book_id, round_number) ==
    LET OfOtherBook(e) == e.book_id # book_id
    IN /\ book_id \in 1..Len(books)
       /\ reading_history' = InsertRow(SelectSeq(reading_history, OfOtherBook),
                                       [book_id |-> book_id,
                                        round_number |-> round_number])
       /\ UNCHANGED <<members, books, vetoes>>

\* INSERT INTO reading_history (book_id, round_number); book_id REFERENCES
\* books(id).
mark_book_as_read(book_id, round_number) ==
    /\ book_id \in 1..Len(books)
    /\ reading_history' = InsertRow(reading_history,
                                    [book_id |-> book_id,
                                     round_number |-> round_number])
    /\ UNCHANGED <<members, books, vetoes>>

\* reset_database(), up to its commit: DROP TABLE IF EXISTS ... CASCADE for
\* the five tables.  The rows are gone and no table exists.
reset_database_drop ==
    /\ tables_exist
    /\ tables_exist' = FALSE
    /\ members' = <<>>
    /\ books' = <<>>
    /\ reading_history' = <<>>
    /\ vetoes' = {}

\* init_db(): CREATE TABLE IF NOT EXISTS ... for the five tables.  It ends
\* reset_database() and begins every run of app.py; where the tables exist
\* it changes nothing.
init_db ==
    /\ tables_exist' = TRUE
    /\ UNCHANGED store

\* ------------------------------------------------------------ genre_helper.py
\* update_book_genres() reads the books once (line 52) and asks about those
\* of genre 'Unspecified' (line 55), one after the other, waiting at input()
\* before each UPDATE; batch_update_page_counts() does the same for the
\* books of 300 pages (lines 136, 145).  What an UPDATE finds under the id
\* is the store of that moment, not the book the run read.

\* Lines 117-122, for a book it was given a genre for: UPDATE books SET
\* genre = %s WHERE id = %s, committed on a connection of its own.  (Where
\* no book has the id, no row changes.)
set_genre(book_id, selected_genre) ==
    /\ books' = [i \in 1..Len(books) |->
                   IF i = book_id
                   THEN [books[i] EXCEPT !.genre = selected_genre]
                   ELSE books[i]]
    /\ UNCHANGED <<members, reading_history, vetoes>>

\* Lines 157-162, for a book it was given a page count for: UPDATE books SET
\* page_count = %s WHERE id = %s, committed on a connection of its own.
set_page_count(book_id, pages) ==
    /\ books' = [i \in 1..Len(books) |->
                   IF i = book_id
                   THEN [books[i] EXCEPT !.page_count = pages]
                   ELSE books[i]]
    /\ UNCHANGED <<members, reading_history, vetoes>>

\* ------------------------------------------------------------ recommender.py
\* WEIGHTS, in hundredths (0.4, 0.2, 0.3, 0.1).
WEIGHT_genre_match == 40
WEIGHT_length_preference == 20
WEIGHT_member_interest == 30
WEIGHT_diversity_bonus == 10

\* Mutant of calculate_genre_match: one count per liked_genres entry that
\* equals the genre (a member who lists it twice counts twice).
calculate_genre_match_PerEntry(book, ms) ==
    IF Len(ms) = 0 THEN [num |-> 50, den |-> 1]
    ELSE LET entries ==
                 { p \in (1..Len(ms)) \X (1..3) :
                     /\ p[2] <= Len(ms[p[1]].liked_genres)
                     /\ ms[p[1]].liked_genres[p[2]] = book.genre }
         IN [num |-> Cardinality(entries) * 100, den |-> Len(ms)]

\* (members_who_like / len(members)) * 100, as a fraction; 50.0 without members.
calculate_genre_match(book, ms) ==
    IF Len(ms) = 0 THEN [num |-> 50, den |-> 1]
    ELSE LET members_who_like ==
                 Cardinality({ i \in 1..Len(ms) :
                                 book.genre \in Range(ms[i].liked_genres) })
         IN [num |-> members_who_like * 100, den |-> Len(ms)]

\* list.sort(): ascending and stable.  Element j goes to the place after
\* the smaller elements and the equal elements before it.
SortAsc(s) ==
    LET place(j) == 1 + Cardinality({ k \in 1..Len(s) :
                                         \/ s[k] < s[j]
                                         \/ s[k] = s[j] /\ k < j })
    IN [i \in 1..Len(s) |-> s[CHOOSE j \in 1..Len(s) : place(j) = i]]

\* Mutant of IdealLength2: preferred_lengths.sort() left out.
IdealLength2_Unsorted(ms) ==
    LET preferred_lengths == [i \in 1..Len(ms) |-> ms[i].preferred_length]
        n == Len(preferred_lengths)
    IN IF n % 2 = 0
       THEN preferred_lengths[n \div 2] + preferred_lengths[n \div 2 + 1]
       ELSE 2 * preferred_lengths[n \div 2 + 1]

\* Twice the median of the preferred lengths (ideal_length * 2).
IdealLength2(ms) ==
    LET preferred_lengths ==
            SortAsc([i \in 1..Len(ms) |-> ms[i].preferred_length])
        n == Len(preferred_lengths)
    IN IF n % 2 = 0
       THEN preferred_lengths[n \div 2] + preferred_lengths[n \div 2 + 1]
       ELSE 2 * preferred_lengths[n \div 2 + 1]

\* Mutant of calculate_length_preference: 100 - penalty without max(0, ...).
calculate_length_preference_NoFloor(book, ms) ==
    IF Len(ms) = 0 THEN 500
    ELSE 1000 - Abs(2 * book.page_count - IdealLength2(ms))

\* max(0, 100 - abs(page_count - ideal_length) / 5), in tenths; 50.0 without
\* members.
calculate_length_preference(book, ms) ==
    IF Len(ms) = 0 THEN 500
    ELSE LET distance2 == Abs(2 * book.page_count - IdealLength2(ms))
             \* penalty = distance / 5 = distance2 / 10 points = distance2 tenths
             penalty10 == distance2
         IN Max(0, 1000 - penalty10)

\* 100.0 with a suggester, 50.0 without.
calculate_member_interest(book, ms) ==
    IF book.suggested_by # NULL THEN 100 ELSE 50

\* The for loop of calculate_diversity_bonus: books_since at the break, or
\* -1 when the loop ends without one (the for ... else branch).
RECURSIVE BooksSince(_, _, _, _)
BooksSince(book, history, i, books_since) ==
    IF i > Len(history) THEN -1
    ELSE IF history[i].genre = book.genre THEN books_since
    ELSE BooksSince(book, history, i + 1, books_since + 1)

\* Mutant of calculate_diversity_bonus: > for >= in the tiers.
calculate_diversity_bonus_Strict(book, history) ==
    IF Len(history) = 0 THEN 100
    ELSE LET books_since == BooksSince(book, history, 1, 0)
         IN IF books_since = -1 THEN 100
            ELSE IF books_since > 5 THEN 100
            ELSE IF books_since > 3 THEN 70
            ELSE 0

calculate_diversity_bonus(book, history) ==
    IF Len(history) = 0 THEN 100
    ELSE LET books_since == BooksSince(book, history, 1, 0)
         IN IF books_since = -1 THEN 100
            ELSE IF books_since >= 5 THEN 100
            ELSE IF books_since >= 3 THEN 70
            ELSE 0

\* ------------------------------------------------------------ floats
\* The engine adds the four weighted sub-scores in IEEE-754 doubles and
\* rounds the sum with round(total_score, 2).  A double is [m, e]: the value
\* m * 2^e with m < 2^53.  m is written as the sequence of its digits to the
\* base 2^LimbBits, lowest first, without leading zeros (<<>> is 0).  Every
\* operation gives the double nearest to the exact result, ties to the
\* even m.
LimbBits == 12

Base == 2 ^ LimbBits

\* The digits of a natural number.
RECURSIVE Limbs(_)
Limbs(n) == IF n = 0 THEN <<>> ELSE <<n % Base>> \o Limbs(n \div Base)

\* The natural number with these digits.
RECURSIVE NatOfLimbs(_)
NatOfLimbs(d) ==
    IF Len(d) = 0 THEN 0 ELSE d[1] + Base * NatOfLimbs(SubSeq(d, 2, Len(d)))

\* d without its leading zeros.
RECURSIVE TrimLimbs(_)
TrimLimbs(d) ==
    IF Len(d) > 0 /\ d[Len(d)] = 0
    THEN TrimLimbs(SubSeq(d, 1, Len(d) - 1))
    ELSE d

\* Digit i of d (0 beyond its length).
Limb(d, i) == IF i >= 1 /\ i <= Len(d) THEN d[i] ELSE 0

\* The number of binary digits of a natural number below Base^2 ...
RECURSIVE BitLenNat(_)
BitLenNat(n) == IF n = 0 THEN 0 ELSE 1 + BitLenNat(n \div 2)

\* ... and of d.
BitLen(d) ==
    IF Len(d) = 0 THEN 0 ELSE LimbBits * (Len(d) - 1) + BitLenNat(d[Len(d)])

\* a + b, from the lowest digit up.
RECURSIVE AddLimbs(_, _, _, _, _)
AddLimbs(a, b, i, carry, sum) ==
    IF i > Len(a) /\ i > Len(b)
    THEN IF carry = 0 THEN sum ELSE Append(sum, carry)
    ELSE LET s == Limb(a, i) + Limb(b, i) + carry
         IN AddLimbs(a, b, i + 1, s \div Base, Append(sum, s % Base))

\* a - b, for a >= b.
RECURSIVE SubLimbs(_, _, _, _, _)
SubLimbs(a, b, i, borrow, diff) ==
    IF i > Len(a) THEN TrimLimbs(diff)
    ELSE LET s == Limb(a, i) - Limb(b, i) - borrow
         IN SubLimbs(a, b, i + 1, IF s < 0 THEN 1 ELSE 0,
                     Append(diff, (s + Base) % Base))

\* d * n, for a natural number n <= Base.
RECURSIVE MulSmall(_, _, _, _, _)
MulSmall(d, n, i, carry, prod) ==
    IF i > Len(d)
    THEN IF carry = 0 THEN prod ELSE Append(prod, carry)
    ELSE LET s == d[i] * n + carry
         IN MulSmall(d, n, i + 1, s \div Base, Append(prod, s % Base))

\* d * Base^k.
ShiftLimbs(d, k) == [i \in 1..(Len(d) + k) |-> IF i <= k THEN 0 ELSE d[i - k]]

\* a * b: a * b[i] * Base^(i-1) added for every digit i of b.
RECURSIVE MulLimbs(_, _, _, _)
MulLimbs(a, b, i, acc) ==
    IF i > Len(b) THEN TrimLimbs(acc)
    ELSE MulLimbs(a, b, i + 1,
                  AddLimbs(acc, ShiftLimbs(MulSmall(a, b[i], 1, 0, <<>>), i - 1),
                           1, 0, <<>>))

\* Long division of d by a natural number n, 0 < n <= Base^(3/2), from
\* digit i down: the digits of the quotient and the remainder.
RECURSIVE DivSmall(_, _, _, _, _)
DivSmall(d, n, i, r, quo) ==
    IF i = 0 THEN [quo |-> TrimLimbs(quo), rem |-> r]
    ELSE LET t == r * Base + d[i]
         IN DivSmall(d, n, i - 1, t % n, <<t \div n>> \o quo)

\* d * 2^s.
ShiftLeft(d, s) ==
    ShiftLimbs(MulSmall(d, 2 ^ (s % LimbBits), 1, 0, <<>>), s \div LimbBits)

\* d without its s lowest binary digits, and whether one of those is 1.
DropBits(d, s) ==
    LET k == Min(s \div LimbBits, Len(d))
        q == DivSmall(SubSeq(d, k + 1, Len(d)), 2 ^ (s % LimbBits),
                      Len(d) - k, 0, <<>>)
    IN [quo |-> q.quo,
        inexact |-> q.rem # 0 \/ \E i \in 1..k : d[i] # 0]

\* m without its cut >= 1 lowest binary digits, rounded to nearest, ties to
\* even.
RoundBits(m, cut) ==
    LET h == DropBits(m, cut - 1)
        kept == DropBits(h.quo, 1).quo
        up == /\ Limb(h.quo, 1) % 2 = 1
              /\ h.inexact \/ Limb(kept, 1) % 2 = 1
    IN IF up THEN AddLimbs(kept, <<1>>, 1, 0, <<>>) ELSE kept

\* The double nearest to m * 2^e: m is cut to 53 binary digits.
RoundToDouble(m, e) ==
    LET cut == BitLen(m) - 53
    IN IF cut <= 0 THEN [m |-> m, e |-> e]
       ELSE [m |-> RoundBits(m, cut), e |-> e + cut]

\* float(n), for a natural number n.
FloatOfInt(n) == [m |-> Limbs(n), e |-> 0]

\* p / q of two natural numbers, q > 0: the quotient of p * 2^s by q, which
\* has more than 54 binary digits, then one more digit that is 1 unless the
\* division is exact, rounded.
FloatDiv(p, q) ==
    IF p = 0 THEN FloatOfInt(0)
    ELSE LET s == 56 + BitLenNat(q)
             num == ShiftLeft(Limbs(p), s)
             d == DivSmall(num, q, Len(num), 0, <<>>)
         IN RoundToDouble(
                AddLimbs(ShiftLeft(d.quo, 1),
                         IF d.rem = 0 THEN <<>> ELSE <<1>>, 1, 0, <<>>),
                -s - 1)

\* x * y
FloatMul(x, y) == RoundToDouble(MulLimbs(x.m, y.m, 1, <<>>), x.e + y.e)

\* x + y
FloatAdd(x, y) ==
    LET e == Min(x.e, y.e)
    IN RoundToDouble(
           TrimLimbs(AddLimbs(ShiftLeft(x.m, x.e - e), ShiftLeft(y.m, y.e - e),
                              1, 0, <<>>)), e)

\* x - y, for x >= y
FloatSub(x, y) ==
    LET e == Min(x.e, y.e)
    IN RoundToDouble(
           SubLimbs(ShiftLeft(x.m, x.e - e), ShiftLeft(y.m, y.e - e),
                    1, 0, <<>>), e)

\* round(x, 2), in hundredths: the integer nearest to the exact value of
\* 100 * x, ties to even.
RoundFloat2(x) ==
    LET h == MulSmall(x.m, 100, 1, 0, <<>>)
    IN IF x.e >= 0 THEN NatOfLimbs(ShiftLeft(h, x.e))
       ELSE NatOfLimbs(RoundBits(h, -x.e))

\* The weighted sum as the engine computes it, in doubles: the weights are
\* the literals w / 100, genre_match is (members_who_like / len(members)) *
\* 100, length_preference is 100 - distance / 5 (distance / 5 = distance2 /
\* 10 with distance2 = 1000 - length_score tenths), and the four products
\* are added from left to right.
FloatTotal(wg, wl, wi, wd, genre_match, length_score, interest_score, diversity) ==
    LET gm == IF genre_match.num % 100 = 0
              THEN FloatMul(FloatDiv(genre_match.num \div 100, genre_match.den),
                            FloatOfInt(100))
              ELSE FloatDiv(genre_match.num, genre_match.den)
        lp == IF length_score = 0 THEN FloatOfInt(0)
              ELSE FloatSub(FloatOfInt(100),
                            FloatDiv(1000 - length_score, 10))
    IN FloatAdd(
         FloatAdd(
           FloatAdd(FloatMul(FloatDiv(wg, 100), gm),
                    FloatMul(FloatDiv(wl, 100), lp)),
           FloatMul(FloatDiv(wi, 100), FloatOfInt(interest_score))),
         FloatMul(FloatDiv(wd, 100), FloatOfInt(diversity)))

\* round(total_score, 2) in hundredths, for the weights wg, wl, wi, wd (in
\* hundredths).  P / Q is the exact weighted sum in hundredths.  The double
\* total_score differs from it by less than 2^-40, and an exact sum that is
\* not halfway between two hundredths is at least 1 / (2 Q) away from
\* halfway, so round() gives the hundredth nearest to the exact sum; for an
\* exact sum halfway between two hundredths the double decides.
TotalWith(wg, wl, wi, wd, genre_match, length_score, interest_score, diversity) ==
    LET Q == genre_match.den * 10
        P == wg * genre_match.num * 10
               + genre_match.den * (wl * length_score
                                    + 10 * wi * interest_score
                                    + 10 * wd * diversity)
    IN IF 2 * (P % Q) < Q THEN P \div Q
       ELSE IF 2 * (P % Q) > Q THEN P \div Q + 1
       ELSE RoundFloat2(FloatTotal(wg, wl, wi, wd, genre_match, length_score,
                                   interest_score, diversity))

\* Mutant of WeightedTotal: the weights of length_preference and
\* member_interest exchanged.
WeightedTotal_SwappedWeights(genre_match, length_score, interest_score, diversity) ==
    TotalWith(WEIGHT_genre_match, WEIGHT_member_interest,
              WEIGHT_length_preference, WEIGHT_diversity_bonus,
              genre_match, length_score, interest_score, diversity)

\* round(total_score, 2) of the weighted sum, in hundredths.
WeightedTotal(genre_match, length_score, interest_score, diversity) ==
    TotalWith(WEIGHT_genre_match, WEIGHT_length_preference,
              WEIGHT_member_interest, WEIGHT_diversity_bonus,
              genre_match, length_score, interest_score, diversity)

calculate_book_score(book, ms, history) ==
    LET genre_match == calculate_genre_match(book, ms)
        length_score == calculate_length_preference(book, ms)
        interest_score == calculate_member_interest(book, ms)
        diversity == calculate_diversity_bonus(book, history)
    IN [score |-> WeightedTotal(genre_match, length_score, interest_score,
                                diversity),
        score_breakdown |-> [genre_match |-> genre_match,
                             length_preference |-> length_score,
                             member_interest |-> interest_score,
                             diversity_bonus |-> diversity]]

\* Mutant of FilterLoop: eligible.insert(0, book) for eligible.append(book).
RECURSIVE FilterLoop_Prepend(_, _, _, _, _, _)
FilterLoop_Prepend(pool, read_book_ids, last_2, vetoed, i, eligible) ==
    IF i > Len(pool) THEN eligible
    ELSE LET book == pool[i]
         IN IF \/ book.id \in read_book_ids
               \/ book.genre \in Range(last_2)
               \/ book.genre \in vetoed
            THEN FilterLoop_Prepend(pool, read_book_ids, last_2, vetoed, i + 1,
                                    eligible)
            ELSE FilterLoop_Prepend(pool, read_book_ids, last_2, vetoed, i + 1,
                                    <<book>> \o eligible)

\* The loop of apply_hard_constraints over all_books.
RECURSIVE FilterLoop(_, _, _, _, _, _)
FilterLoop(pool, read_book_ids, last_2, vetoed, i, eligible) ==
    IF i > Len(pool) THEN eligible
    ELSE LET book == pool[i]
         IN IF book.id \in read_book_ids
            THEN FilterLoop(pool, read_book_ids, last_2, vetoed, i + 1, eligible)
            ELSE IF book.genre \in Range(last_2)
            THEN FilterLoop(pool, read_book_ids, last_2, vetoed, i + 1, eligible)
            ELSE IF book.genre \in vetoed
            THEN FilterLoop(pool, read_book_ids, last_2, vetoed, i + 1, eligible)
            ELSE FilterLoop(pool, read_book_ids, last_2, vetoed, i + 1,
                            Append(eligible, book))

\* Mutant of ReadBookIds: the most recent entry only.
ReadBookIds_LatestOnly(history) ==
    { history[i].book_id : i \in 1..Min(1, Len(history)) }

\* read_book_ids = {item['book_id'] for item in reading_history}
ReadBookIds(history) == { history[i].book_id : i \in 1..Len(history) }

\* apply_hard_constraints(all_books, reading_history, current_round), given
\* what its two database reads returned.
\* Mutant of apply_hard_constraints: filter 1 (not already read) left out.
apply_hard_constraints_NoReadRule(pool, history, last_2, vetoed) ==
    FilterLoop(pool, {}, last_2, vetoed, 1, <<>>)

apply_hard_constraints(pool, history, last_2, vetoed) ==
    FilterLoop(pool, ReadBookIds(history), last_2, vetoed, 1, <<>>)

\* scored_books: each eligible book with its score and breakdown.
ScoredBooks(eligible, ms, history) ==
    [i \in 1..Len(eligible) |->
        LET sc == calculate_book_score(eligible[i], ms, history)
        IN [id |-> eligible[i].id, genre |-> eligible[i].genre,
            page_count |-> eligible[i].page_count,
            suggested_by |-> eligible[i].suggested_by,
            score |-> sc.score, score_breakdown |-> sc.score_breakdown]]

\* Mutant of InsertByScore: reverse=True left out (ascending).
InsertByScore_Ascending(sorted, x) ==
    LET k == Cardinality({ j \in 1..Len(sorted) : sorted[j].score <= x.score })
    IN SubSeq(sorted, 1, k) \o <<x>> \o SubSeq(sorted, k + 1, Len(sorted))

\* Mutant of InsertByScore: x goes before the elements of equal score, as in
\* an ascending sort that is then reversed.
InsertByScore_Unstable(sorted, x) ==
    LET k == Cardinality({ j \in 1..Len(sorted) : sorted[j].score > x.score })
    IN SubSeq(sorted, 1, k) \o <<x>> \o SubSeq(sorted, k + 1, Len(sorted))

\* One insertion of list.sort(key=score, reverse=True): x goes behind every
\* element whose score is at least its own (the sort is stable).
InsertByScore(sorted, x) ==
    LET k == Cardinality({ j \in 1..Len(sorted) : sorted[j].score >= x.score })
    IN SubSeq(sorted, 1, k) \o <<x>> \o SubSeq(sorted, k + 1, Len(sorted))

RECURSIVE SortByScoreDesc(_, _, _)
SortByScoreDesc(s, i, acc) ==
    IF i > Len(s) THEN acc
    ELSE SortByScoreDesc(s, i + 1, InsertByScore(acc, s[i]))

\* scored_books[:top_n], for top_n >= 1.
Truncate(s, n) == SubSeq(s, 1, Min(n, Len(s)))

\* Lines 32-49 of get_recommendations.
RankAndTruncate(eligible, ms, history, n) ==
    IF Len(eligible) = 0 THEN <<>>
    ELSE Truncate(SortByScoreDesc(ScoredBooks(eligible, ms, history), 1, <<>>), n)

\* get_genres_from_pool(): sorted(list(set(book['genre'] for book in books)))
get_genres_from_pool ==
    LET InPool(g) == \E i \in 1..Len(get_books) : get_books[i].genre = g
    IN SelectSeq(SortedGenres, InPool)

\* The call has returned: its locals are gone.
NoLocals ==
    /\ all_books' = <<>>
    /\ members_r' = <<>>
    /\ history_r' = <<>>
    /\ current_round' = 0
    /\ last_2_genres' = <<>>
    /\ vetoed_genres' = {}
    /\ eligible_books' = <<>>
    /\ top_n' = 0
    /\ result' = <<>>

\* The caller is done with the list, or with the exception.
Return ==
    /\ pc \in {"done", "raised"}
    /\ pc' = "idle"
    /\ NoLocals
    /\ stores_seen' = {}
    /\ conc_writes' = 0
    /\ UNCHANGED <<store, arg_book, arg_members, arg_history, ret, veto_calls,
                   tables_exist>>

\* ---- get_recommendations, one step per database call
\* Each db.* call commits or reads on a connection of its own, so writes of
\* other sessions fall between the reads of one call.  pc is "idle" before
\* the call, the line of its next database call while it runs, and "done"
\* when it has its list.

\* line 20: all_books = db.get_books()
rec_get_books ==
    /\ pc = "idle"
    /\ tables_exist
    /\ pc' = "l21"
    /\ all_books' = get_books
    /\ UNCHANGED <<store, call, env, members_r, history_r, current_round,
                   last_2_genres, vetoed_genres, eligible_books, top_n, result>>

\* line 21: members = db.get_members()
rec_get_members ==
    /\ pc = "l21"
    /\ tables_exist
    /\ pc' = "l22"
    /\ members_r' = get_members
    /\ UNCHANGED <<store, call, env, all_books, history_r, current_round,
                   last_2_genres, vetoed_genres, eligible_books, top_n, result>>

\* line 22: reading_history = db.get_reading_history()
rec_get_reading_history ==
    /\ pc = "l22"
    /\ tables_exist
    /\ pc' = "l23"
    /\ \E h \in get_reading_history : history_r' = h
    /\ UNCHANGED <<store, call, env, all_books, members_r, current_round,
                   last_2_genres, vetoed_genres, eligible_books, top_n, result>>

\* line 23: current_round = db.get_current_round()
rec_get_current_round ==
    /\ pc = "l23"
    /\ tables_exist
    /\ pc' = "l70"
    /\ current_round' = get_current_round
    /\ UNCHANGED <<store, call, env, all_books, members_r, history_r,
                   last_2_genres, vetoed_genres, eligible_books, top_n, result>>

\* line 70 (in apply_hard_constraints): last_2_genres = db.get_last_n_genres(2)
rec_get_last_n_genres ==
    /\ pc = "l70"
    /\ tables_exist
    /\ pc' = "l73"
    /\ \E l \in get_last_n_genres(2) : last_2_genres' = l
    /\ UNCHANGED <<store, call, env, all_books, members_r, history_r,
                   current_round, vetoed_genres, eligible_books, top_n, result>>

\* Mutant of rec_get_vetoes_and_rank: the filter removes the books it
\* rejects from the pool list it was given.
rec_get_vetoes_and_rank_FiltersInPlace ==
    /\ pc = "l73"
    /\ tables_exist
    /\ pc' = "done"
    /\ vetoed_genres' = get_vetoes(current_round)
    /\ eligible_books' = apply_hard_constraints(all_books, history_r,
                                                last_2_genres, vetoed_genres')
    /\ all_books' = eligible_books'
    /\ \E n \in TopNs :
         /\ top_n' = n
         /\ result' = RankAndTruncate(eligible_books', members_r, history_r, n)
    /\ UNCHANGED <<store, call, env, members_r, history_r, current_round,
                   last_2_genres>>

\* line 73: vetoed_genres = db.get_vetoes(current_round), the last database
\* read of the call; the filter loop, the scoring, the sort and the slice
\* (lines 75-90 and 32-49) compute on locals only.  top_n, the caller's
\* argument (TopNs), is read by the slice alone.
rec_get_vetoes_and_rank ==
    /\ pc = "l73"
    /\ tables_exist
    /\ pc' = "done"
    /\ vetoed_genres' = get_vetoes(current_round)
    /\ eligible_books' = apply_hard_constraints(all_books, history_r,
                                                last_2_genres, vetoed_genres')
    /\ \E n \in TopNs :
         /\ top_n' = n
         /\ result' = RankAndTruncate(eligible_books', members_r, history_r, n)
    /\ UNCHANGED <<store, call, env, all_books, members_r, history_r,
                   current_round, last_2_genres>>

\* The call is between its first and its last read of the store.
Running == pc \in {"l21", "l22", "l23", "l70", "l73"}

\* A database call of get_recommendations finds no table: the query raises
\* and the exception leaves get_recommendations, which catches nothing.
rec_raise ==
    /\ pc = "idle" \/ Running
    /\ ~tables_exist
    /\ pc' = "raised"
    /\ NoLocals
    /\ UNCHANGED <<store, call, env>>

\* A page calls get_genres_from_pool() for its genre selector ...
GetGenresFromPool ==
    /\ pc = "idle"
    /\ tables_exist
    /\ pc' = "genres"
    /\ ret' = <<get_genres_from_pool>>
    /\ UNCHANGED <<store, locals, env, arg_book, arg_members, arg_history,
                   veto_calls, stores_seen>>

\* ... and is done with the list.
ReturnGenres ==
    /\ pc = "genres"
    /\ pc' = "idle"
    /\ ret' = <<>>
    /\ conc_writes' = 0
    /\ UNCHANGED <<store, locals, arg_book, arg_members, arg_history,
                   veto_calls, stores_seen, tables_exist>>

\* ------------------------------------------------------------ specification
\* The store after init_db(); no call is running.
InitStore ==
    /\ members = <<>>
    /\ books = <<>>
    /\ reading_history = <<>>
    /\ vetoes = {}

InitLocals ==
    /\ pc = "idle"
    /\ all_books = <<>>
    /\ members_r = <<>>
    /\ history_r = <<>>
    /\ current_round = 0
    /\ last_2_genres = <<>>
    /\ vetoed_genres = {}
    /\ eligible_books = <<>>
    /\ top_n = 0
    /\ result = <<>>

InitCall ==
    /\ arg_book = <<>>
    /\ arg_members = <<>>
    /\ arg_history = <<>>
    /\ ret = <<>>
    /\ veto_calls = <<>>
    /\ stores_seen = {}

\* The tables exist; no call runs, so none has seen a write.
InitEnv ==
    /\ conc_writes = 0
    /\ tables_exist = TRUE

Init == InitStore /\ InitLocals /\ InitCall /\ InitEnv

\* Several sessions on one database.  Each database call commits on a
\* connection of its own, so a write of any session falls before a call of
\* get_recommendations or between two of its reads.  A session writes what
\* it read or was given earlier: a page reads the members (app.py line 173),
\* the books (174), the round (180) and the genres (193) one after the other
\* and writes at lines 209 and 251, a helper waits at input(), and other
\* sessions write and reset the database in between.  So the arguments of a
\* write are inputs, checked against the store only by the foreign keys.

\* A write commits: the tables exist, and it is not one write too many
\* since the call began (between its reads, or while its caller holds what
\* it returned).
WriteCommits ==
    /\ tables_exist
    /\ \/ pc = "idle" /\ conc_writes' = conc_writes
       \/ pc # "idle" /\ conc_writes < MaxWritesInCall
                      /\ conc_writes' = conc_writes + 1

AddMember ==
    /\ WriteCommits
    /\ Rows < MaxRows
    /\ \E m \in MemberInputs : add_member(m.preferred_length, m.liked_genres)
    /\ UNCHANGED <<pc, locals, call, tables_exist>>

\* "Add Book" (app.py lines 157-161): suggested_by is None or the id of the
\* member chosen.
AddBook ==
    /\ WriteCommits
    /\ Rows < MaxRows
    /\ \E b \in BookInputs : add_book(b.genre, b.page_count, b.suggested_by)
    /\ UNCHANGED <<pc, locals, call, tables_exist>>

\* "Save" (app.py line 209): db.add_veto(member['id'], veto_genre,
\* current_round) with a member the run read, a genre it offered and the
\* round it read, on the store as it is when the run gets there.
AddVeto ==
    /\ WriteCommits
    /\ \E m \in 1..Len(members), g \in VetoGenres, r \in RoundInputs :
         /\ Len(members) + Len(books) + Len(reading_history)
              + Cardinality(VetoesAfter(m, g, r)) <= MaxRows
         /\ add_veto(m, g, r)
    /\ UNCHANGED <<pc, locals, call, tables_exist>>

\* "We chose this book!" (app.py line 251): db.mark_book_as_read(book['id'],
\* current_round) with the round the run read (line 180) and a book of the
\* list it was given (line 221), on the store as it is when the run gets
\* there; demo_data.py (lines 94, 99) records a book it looked up, for the
\* rounds 1 and 2.
MarkBookAsRead ==
    /\ WriteCommits
    /\ Rows < MaxRows
    /\ \E b \in 1..Len(books), r \in RoundInputs : mark_book_as_read(b, r)
    /\ UNCHANGED <<pc, locals, call, tables_exist>>

\* import_bookclub_data.py adds a book whose row has no genre: genre
\* 'Unspecified', page_count 300, with or without suggester.
ImportBook ==
    /\ WriteCommits
    /\ Rows < MaxRows
    /\ Len(books) < MaxImported
    /\ \E m \in {NULL} \cup (1..Min(1, Len(members))) :
         add_book("Unspecified", 300, m)
    /\ UNCHANGED <<pc, locals, call, tables_exist>>

\* A run of update_book_genres() commits the genre it was given for a book
\* of the list it read: a book the import had added, whatever the store
\* holds under that id by now.
update_book_genres ==
    /\ WriteCommits
    /\ \E i \in 1..Min(Len(books), MaxImported), g \in Genres : set_genre(i, g)
    /\ books' # books
    /\ UNCHANGED <<pc, locals, call, tables_exist>>

\* A run of batch_update_page_counts() commits the page count it was given
\* for a book of the list it read.
batch_update_page_counts ==
    /\ WriteCommits
    /\ \E i \in 1..Min(Len(books), MaxImported), n \in PageInputs :
         set_page_count(i, n)
    /\ books' # books
    /\ UNCHANGED <<pc, locals, call, tables_exist>>

\* reset_database() (app.py line 297, demo_data.py, import_bookclub_data.py)
\* commits its DROP TABLEs ...
ResetDatabase ==
    /\ WriteCommits
    /\ reset_database_drop
    /\ UNCHANGED <<pc, locals, call>>

\* ... and goes on to init_db(); the next run of app.py calls it too.
InitDb ==
    /\ ~tables_exist
    /\ init_db
    /\ UNCHANGED <<pc, locals, call, conc_writes>>

Next ==
    \/ AddMember
    \/ AddBook
    \/ AddVeto
    \/ MarkBookAsRead
    \/ ImportBook
    \/ update_book_genres
    \/ batch_update_page_counts
    \/ ResetDatabase
    \/ InitDb
    \/ rec_get_books
    \/ rec_get_members
    \/ rec_get_reading_history
    \/ rec_get_current_round
    \/ rec_get_last_n_genres
    \/ rec_get_vetoes_and_rank
    \/ rec_raise
    \/ Return
    \/ GetGenresFromPool
    \/ ReturnGenres

Spec == Init /\ [][Next]_vars

\* ---- several sessions on a populated store, with the stores seen
\* A write that commits between two reads of the call: the store it changes
\* and the store it leaves have existed while the call ran.  (A write
\* before the call, or after its last read, is none of those.)
StoreSeen ==
    stores_seen' = IF Running THEN stores_seen \cup {store, store'}
                   ELSE stores_seen

\* The store contents that have existed between the first and the last
\* read of the call, for a call about to make its last read.
StoresSeen == stores_seen \cup {store}

\* In SpecConc the sessions start on this store and none resets it or adds
\* a book: every page has read its members and its books, the genres it
\* offers are those of the pool, and the round it read is the current round
\* or one before it (the current round starts at 1 and rises by 1 at a
\* time).

\* Another session records a selection.
ConcMarkBookAsRead ==
    /\ Len(reading_history) + Cardinality(vetoes) < MaxConcWrites
    /\ \E b \in 1..Len(books), r \in 1..get_current_round :
         mark_book_as_read(b, r)
    /\ StoreSeen
    /\ UNCHANGED <<pc, locals, env, arg_book, arg_members, arg_history, ret,
                   veto_calls>>

\* Another session saves a veto.
ConcAddVeto ==
    /\ \E m \in 1..Len(members), g \in Range(get_genres_from_pool),
          r \in 1..get_current_round :
         /\ Len(reading_history) + Cardinality(VetoesAfter(m, g, r))
              <= MaxConcWrites
         /\ add_veto(m, g, r)
    /\ StoreSeen
    /\ UNCHANGED <<pc, locals, env, arg_book, arg_members, arg_history, ret,
                   veto_calls>>

\* The store of SpecConc when the sessions start: one member, three books
\* (add_member, then add_book three times, from the empty store).
InitConcStore ==
    /\ members = <<[id |-> 1, preferred_length |-> 350,
                    liked_genres |-> <<"Fantasy">>]>>
    /\ books = <<[id |-> 1, genre |-> "Fantasy", page_count |-> 310,
                  suggested_by |-> NULL],
                 [id |-> 2, genre |-> "Mystery", page_count |-> 310,
                  suggested_by |-> NULL],
                 [id |-> 3, genre |-> "Fantasy", page_count |-> 310,
                  suggested_by |-> NULL]>>
    /\ reading_history = <<>>
    /\ vetoes = {}

InitConc == InitConcStore /\ InitLocals /\ InitCall /\ InitEnv

NextConc ==
    \/ rec_get_books
    \/ rec_get_members
    \/ rec_get_reading_history
    \/ rec_get_current_round
    \/ rec_get_last_n_genres
    \/ rec_get_vetoes_and_rank
    \/ Return
    \/ ConcMarkBookAsRead
    \/ ConcAddVeto

SpecConc == InitConc /\ [][NextConc]_vars

\* ---- direct calls of calculate_book_score(book, members, reading_history)
\* The arguments are lists get_members and get_reading_history can return.

\* The books passed: both genres, lengths near to and far from any preferred
\* length, without and with a suggester.
ScoreBooks ==
    { [id |-> 1, genre |-> g, page_count |-> n, suggested_by |-> s]
        : g \in Genres, n \in {1, 310, 3000}, s \in {NULL, 1} }

ScoreMemberInputs ==
    { [preferred_length |-> 350, liked_genres |-> <<"Fantasy">>],
      [preferred_length |-> 280, liked_genres |-> <<"Mystery">>],
      [preferred_length |-> 1000,
       liked_genres |-> <<"Mystery", "Fantasy", "Fantasy">>] }

\* Member lists of up to n members, with ids 1, 2, ...
MemberLists(n) ==
    UNION { { [i \in 1..k |->
                 [id |-> i, preferred_length |-> f[i].preferred_length,
                  liked_genres |-> f[i].liked_genres]]
                : f \in [1..k -> ScoreMemberInputs] }
            : k \in 0..n }

\* A history list, most recent first: the genres gs, the round number falling
\* by d[i] (0 or 1) from entry i to entry i + 1, down to round 1.
HistoryList(gs, d) ==
    [i \in 1..Len(gs) |->
        [book_id |-> i, genre |-> gs[i],
         round_number |-> 1 + Cardinality({ j \in i..(Len(gs) - 1) : d[j] = 1 })]]

\* Histories of up to n entries with distinct round numbers.
Histories(n) ==
    UNION { { HistoryList(gs, [j \in 1..(k - 1) |-> 1]) : gs \in [1..k -> Genres] }
            : k \in 0..n }

\* Histories of up to n entries, entries of equal round number included.
TiedHistories(n) ==
    UNION { { HistoryList(gs, d)
                : gs \in [1..k -> Genres], d \in [1..(k - 1) -> {0, 1}] }
            : k \in 0..n }

\* A list of ManyMembers members: the first likes Fantasy, the others
\* Mystery.
ManyMembersList ==
    [i \in 1..ManyMembers |->
        [id |-> i, preferred_length |-> 350,
         liked_genres |-> IF i = 1 THEN <<"Fantasy">> ELSE <<"Mystery">>]]

\* Any book and member list with a short history, or a long history and no
\* member, or the long member list.  A suggester is a member (suggested_by
\* REFERENCES members).
ScoreInputs ==
    { x \in ( ScoreBooks \X MemberLists(MaxScoreMembers)
                \X Histories(MaxScoreHistory) )
            \cup ( ScoreBooks \X MemberLists(0)
                     \X TiedHistories(MaxTiedHistory) )
            \cup ( ScoreBooks \X {ManyMembersList} \X Histories(1) )
        : x[1].suggested_by = NULL \/ x[1].suggested_by \in 1..Len(x[2]) }

InitScore ==
    /\ InitStore
    /\ InitLocals
    /\ ret = <<>>
    /\ veto_calls = <<>>
    /\ stores_seen = {}
    /\ InitEnv
    /\ \E x \in ScoreInputs :
         /\ arg_book = x[1]
         /\ arg_members = x[2]
         /\ arg_history = x[3]

\* score, breakdown = calculate_book_score(book, members, reading_history)
ScoreBook ==
    /\ ret = <<>>
    /\ ret' = <<calculate_book_score(arg_book, arg_members, arg_history)>>
    /\ UNCHANGED <<store, pc, locals, env, arg_book, arg_members,
                   arg_history, veto_calls, stores_seen>>

NextScore == ScoreBook

SpecScore == InitScore /\ [][NextScore]_vars

\* ---- sequences of add_veto calls
\* Two members; add_veto takes any member, genre and round number.
InitVetoStore ==
    /\ members = <<[id |-> 1, preferred_length |-> 350,
                    liked_genres |-> <<"Fantasy">>],
                   [id |-> 2, preferred_length |-> 350,
                    liked_genres |-> <<"Fantasy">>]>>
    /\ books = <<>>
    /\ reading_history = <<>>
    /\ vetoes = {}

InitVeto ==
    /\ InitVetoStore
    /\ InitLocals
    /\ InitCall
    /\ InitEnv

\* db.add_veto(member_id, genre, round_number)
VetoCall ==
    /\ Len(veto_calls) < MaxVetoCalls
    /\ \E m \in 1..Len(members), g \in Genres, r \in 1..MaxVetoRound :
         /\ add_veto(m, g, r)
         /\ veto_calls' = Append(veto_calls,
                                 [member_id |-> m, genre |-> g,
                                  round_number |-> r])
    /\ UNCHANGED <<pc, locals, env, arg_book, arg_members, arg_history, ret,
                   stores_seen>>

NextVeto == VetoCall

SpecVeto == InitVeto /\ [][NextVeto]_vars

\* ---- direct calls of the write functions of database.py
\* add_member, add_book, add_veto and mark_book_as_read called one after the
\* other from the empty store, with any book or member the store holds and
\* any round number of DbRoundInputs (the functions check none of their
\* arguments); reset_database is not called.
DbAddMember ==
    /\ Len(members) < MaxDbMembers
    /\ \E m \in MemberInputs : add_member(m.preferred_length, m.liked_genres)
    /\ UNCHANGED <<pc, locals, call, env>>

DbAddBook ==
    /\ Len(books) < MaxDbBooks
    /\ \E b \in BookInputs : add_book(b.genre, b.page_count, b.suggested_by)
    /\ UNCHANGED <<pc, locals, call, env>>

DbAddVeto ==
    /\ \E m \in 1..Len(members), g \in Genres, r \in DbRoundInputs :
         add_veto(m, g, r)
    /\ UNCHANGED <<pc, locals, call, env>>

DbMarkBookAsRead ==
    /\ Len(reading_history) < MaxDbHistory
    /\ \E b \in 1..Len(books), r \in DbRoundInputs : mark_book_as_read(b, r)
    /\ UNCHANGED <<pc, locals, call, env>>

NextDb ==
    \/ DbAddMember
    \/ DbAddBook
    \/ DbAddVeto
    \/ DbMarkBookAsRead

SpecDb == Init /\ [][NextDb]_vars

\* ------------------------------------------------------------ claims
\* Position of the candidate with this id in the filter output (0: absent).
PosInEligible(id) ==
    IF \E k \in 1..Len(eligible_books) : eligible_books[k].id = id
    THEN CHOOSE k \in 1..Len(eligible_books) : eligible_books[k].id = id
    ELSE 0

\* C1: no candidate whose id appears in an entry of the history passed to the
\* filter, of whatever round, is in the output of apply_hard_constraints, nor
\* in the list get_recommendations returns.
C1_ReadBooksAbsent ==
    pc = "done" =>
      \A j \in 1..Len(history_r) :
        /\ \A i \in 1..Len(eligible_books) :
             eligible_books[i].id # history_r[j].book_id
        /\ \A i \in 1..Len(result) : result[i].id # history_r[j].book_id

\* C1 witness: a pool book was selected in an earlier round, its genre is
\* neither among the last two nor vetoed (only its being in history removes
\* it), and another candidate is returned.
C1_Witness ==
    /\ pc = "done"
    /\ Len(result) >= 1
    /\ \E j \in 1..Len(history_r), i \in 1..Len(all_books) :
         /\ history_r[j].round_number < current_round - 1
         /\ all_books[i].id = history_r[j].book_id
         /\ all_books[i].genre \notin Range(last_2_genres)
         /\ all_books[i].genre \notin vetoed_genres

\* C2 (the claim as stated): no surviving candidate's category equals the
\* category of the 1st or 2nd most recent entry of the history passed to the
\* filter.
C2_LastTwoOfPassedHistoryBanned ==
    pc = "done" =>
      \A i \in 1..Len(eligible_books), j \in 1..Min(2, Len(history_r)) :
        eligible_books[i].genre # history_r[j].genre

\* C3: no candidate in the filter output (nor in the returned list) has the
\* category of an exclusion recorded for the round the filter was called
\* for, whichever participant recorded it: when the filter has queried the
\* exclusions (its last read) and returns, no book it lets through has the
\* genre of an exclusion the store holds for that round.
C3_VetoedGenresAbsent ==
    [][ (pc = "l73" /\ pc' = "done") =>
          \A v \in vetoes :
            v.round_number = current_round =>
              /\ \A i \in 1..Len(eligible_books') :
                   eligible_books'[i].genre # v.genre
              /\ \A i \in 1..Len(result') : result'[i].genre # v.genre ]_vars

\* C3 witness: the second member's veto for the current round is the only
\* rule that removes a pool book, and another candidate survives.
C3_Witness ==
    /\ pc = "done"
    /\ Len(eligible_books) >= 1
    /\ \E v \in vetoes, i \in 1..Len(all_books) :
         /\ v.member_id = 2
         /\ v.round_number = current_round
         /\ all_books[i].genre = v.genre
         /\ all_books[i].id \notin ReadBookIds(history_r)
         /\ all_books[i].genre \notin Range(last_2_genres)

\* The three removal rules: the book is in the history passed in, its genre
\* is one of last_2_genres, its genre is vetoed for the round passed in.
HitsNoRule(b) ==
    /\ \A j \in 1..Len(history_r) : history_r[j].book_id # b.id
    /\ b.genre \notin Range(last_2_genres)
    /\ \A v \in vetoes : v.round_number = current_round => v.genre # b.genre

\* last_2_genres are the categories of the two most recent selections of
\* the store (of however many there are, if fewer).
IsLastTwoSelected ==
    LET n == Len(reading_history)
        genre(i) == books[reading_history[i].book_id].genre
        round(i) == reading_history[i].round_number
    IN /\ Len(last_2_genres) = Min(2, n)
       /\ n = 1 => last_2_genres[1] = genre(1)
       /\ n >= 2 =>
            \E i, j \in 1..n :
              /\ i # j
              /\ last_2_genres[1] = genre(i)
              /\ last_2_genres[2] = genre(j)
              /\ round(i) >= round(j)
              /\ \A k \in 1..n \ {i, j} : round(j) >= round(k)

\* The filter output is the pool without the books that hit a rule.
IsPoolWithoutRuleHits == eligible_books = SelectSeq(all_books, HitsNoRule)

\* C4: the filter output is exactly the subsequence of the pool, in pool
\* order, of the candidates that hit none of the three rules (in history,
\* category among the last two selected, category vetoed for the round):
\* when the filter reads last_2_genres, they are the categories of the two
\* most recent selections, and when it returns, its output is the pool
\* without the rule hits.
C4_ExactSubsequence ==
    [][ /\ (pc = "l70" /\ pc' = "l73") => IsLastTwoSelected'
        /\ (pc = "l73" /\ pc' = "done") => IsPoolWithoutRuleHits' ]_vars

\* C4 witness: of three pool books the first and the third survive, the
\* second is removed.
C4_Witness ==
    /\ pc = "done"
    /\ Len(all_books) = 3
    /\ Len(eligible_books) = 2
    /\ eligible_books[1].id = 1
    /\ eligible_books[2].id = 3

\* C5: for top_n >= 1 the returned list is sorted non-increasing by score
\* and has exactly min(top_n, number of survivors) entries.
C5_SortedAndTruncated ==
    pc = "done" =>
      /\ top_n >= 1
      /\ \A i \in 1..(Len(result) - 1) : result[i].score >= result[i + 1].score
      /\ Len(result) = Min(top_n, Len(eligible_books))

\* C5 witness: more survivors than top_n, and a later pool book outranks an
\* earlier one by a strictly higher score.
C5_Witness ==
    /\ pc = "done"
    /\ top_n = 2
    /\ Len(eligible_books) = 3
    /\ Len(result) = 2
    /\ result[1].score > result[2].score
    /\ result[1].id > result[2].id

\* C6: candidates of equal score appear in the returned list in filter-output
\* order, and a candidate cut off by top_n never precedes, in the filter
\* output, a returned candidate of the same score.
C6_TiesKeepFilterOrder ==
    pc = "done" =>
      /\ \A i, j \in 1..Len(result) :
           (i < j /\ result[i].score = result[j].score)
             => PosInEligible(result[i].id) < PosInEligible(result[j].id)
      /\ \A k \in 1..Len(eligible_books), i \in 1..Len(result) :
           ( /\ \A m \in 1..Len(result) : result[m].id # eligible_books[k].id
             /\ calculate_book_score(eligible_books[k], members_r,
                                     history_r).score = result[i].score )
             => PosInEligible(result[i].id) < k

\* C6 witness: two tied candidates behind a lower-scored one in the pool;
\* both are returned in pool order ahead of it (top_n = 2), or the earlier
\* alone.
C6_Witness ==
    /\ pc = "done"
    /\ Len(eligible_books) = 3
    /\ Len(result) = 2
    /\ result[1].id = 2
    /\ result[2].id = 3
    /\ result[1].score = result[2].score

\* Twice the median of the members' preferred lengths, by rank: the k-th
\* smallest value v has fewer than k values below it and at least k values
\* not above it.
KthPreferredLength(ms, k) ==
    CHOOSE v \in { ms[i].preferred_length : i \in 1..Len(ms) } :
      /\ Cardinality({ i \in 1..Len(ms) : ms[i].preferred_length < v }) < k
      /\ Cardinality({ i \in 1..Len(ms) : ms[i].preferred_length <= v }) >= k

Median2(ms) ==
    LET n == Len(ms)
    IN IF n % 2 = 0
       THEN KthPreferredLength(ms, n \div 2) + KthPreferredLength(ms, n \div 2 + 1)
       ELSE 2 * KthPreferredLength(ms, (n + 1) \div 2)

\* C7: the total lies in [0, 100] and so does each of the four sub-scores,
\* for every candidate, member list and history (empty ones included).
C7_ScoresInRange ==
    Len(ret) = 1 =>
      LET b == ret[1].score_breakdown
      IN /\ ret[1].score >= 0 /\ ret[1].score <= 10000
         /\ b.genre_match.den > 0
         /\ b.genre_match.num >= 0
         /\ b.genre_match.num <= 100 * b.genre_match.den
         /\ b.length_preference >= 0 /\ b.length_preference <= 1000
         /\ b.member_interest >= 0 /\ b.member_interest <= 100
         /\ b.diversity_bonus >= 0 /\ b.diversity_bonus <= 100

\* C7 witness: the candidate's length is more than 500 pages from the median
\* preferred length, and length_preference is 0.
C7_Witness ==
    /\ Len(ret) = 1
    /\ Len(arg_members) >= 1
    /\ Abs(2 * arg_book.page_count - Median2(arg_members)) > 1000
    /\ ret[1].score_breakdown.length_preference = 0

\* C8: the weights sum to 1, and the total is 0.40 genre_match + 0.20
\* length_preference + 0.30 member_interest + 0.10 diversity_bonus of the
\* breakdown returned with it, rounded to a nearest hundredth (P / Q is
\* that sum in hundredths; when it lies halfway between two hundredths the
\* total is one of the two); sub-scores 50, 99, 50, 100 give 64.8.
C8_TotalIsWeightedSum ==
    Len(ret) = 1 =>
      LET b == ret[1].score_breakdown
          Q == 10 * b.genre_match.den
          P == 400 * b.genre_match.num
                 + b.genre_match.den * (20 * b.length_preference
                                        + 300 * b.member_interest
                                        + 100 * b.diversity_bonus)
      IN /\ WEIGHT_genre_match + WEIGHT_length_preference
              + WEIGHT_member_interest + WEIGHT_diversity_bonus = 100
         /\ 2 * Abs(ret[1].score * Q - P) <= Q
         /\ ( /\ b.genre_match.num = 50 * b.genre_match.den
              /\ b.length_preference = 990
              /\ b.member_interest = 50
              /\ b.diversity_bonus = 100 ) => ret[1].score = 6480

\* C8 witness: the sub-scores 50, 99, 50, 100 with total 64.8.
C8_Witness ==
    /\ Len(ret) = 1
    /\ ret[1].score_breakdown.genre_match.num
         = 50 * ret[1].score_breakdown.genre_match.den
    /\ ret[1].score_breakdown.length_preference = 990
    /\ ret[1].score_breakdown.member_interest = 50
    /\ ret[1].score_breakdown.diversity_bonus = 100
    /\ ret[1].score = 6480

\* The entries of the history that have the candidate's category.
SameGenreEntries ==
    { i \in 1..Len(arg_history) : arg_history[i].genre = arg_book.genre }

\* The number of entries that precede, in the history (most recent first),
\* the first entry of the candidate's category.
EntriesBeforeFirstSame ==
    (CHOOSE i \in SameGenreEntries : \A j \in SameGenreEntries : i <= j) - 1

\* C9: diversity_bonus is 100 when the history is empty or never has the
\* candidate's category; otherwise, with k the number of entries more recent
\* than the most recent entry of that category, 100 if k >= 5, 70 if
\* 3 <= k < 5, 0 if k < 3.  (k counts the entries ahead of that entry in the
\* history, which lists the most recent first; with distinct round numbers
\* these are the entries of a greater round number.)
C9_DiversityTiers ==
    Len(ret) = 1 =>
      LET d == ret[1].score_breakdown.diversity_bonus
      IN IF SameGenreEntries = {} THEN d = 100
         ELSE LET k == EntriesBeforeFirstSame
                  latest == SetMax({ arg_history[i].round_number
                                       : i \in SameGenreEntries })
              IN /\ k >= 5 => d = 100
                 /\ (k >= 3 /\ k < 5) => d = 70
                 /\ k < 3 => d = 0
                 /\ (\A i \in 1..(Len(arg_history) - 1) :
                        arg_history[i].round_number
                          > arg_history[i + 1].round_number)
                      => k = Cardinality({ i \in 1..Len(arg_history) :
                               arg_history[i].round_number > latest })

\* C9 witness: exactly five entries are more recent than the latest entry of
\* the candidate's category, and the bonus is 100.
C9_Witness ==
    /\ Len(ret) = 1
    /\ SameGenreEntries # {}
    /\ EntriesBeforeFirstSame = 5
    /\ ret[1].score_breakdown.diversity_bonus = 100

\* C10: length_preference is max(0, 100 - |page_count - m| / 5) with m the
\* median of the preferred lengths (by rank, so whatever the order of the
\* member list), and 50 without members.
C10_LengthPreference ==
    Len(ret) = 1 =>
      LET l == ret[1].score_breakdown.length_preference
      IN IF Len(arg_members) = 0 THEN l = 500
         ELSE l = Max(0, 1000 - Abs(2 * arg_book.page_count
                                      - Median2(arg_members)))

\* C10 witness: three members listed with the largest preferred length in
\* the middle (350, 1000, 280; median 350), a 310-page candidate, score 92.
C10_Witness ==
    /\ Len(ret) = 1
    /\ Len(arg_members) = 3
    /\ arg_members[1].preferred_length = 350
    /\ arg_members[2].preferred_length = 1000
    /\ arg_members[3].preferred_length = 280
    /\ arg_book.page_count = 310
    /\ ret[1].score_breakdown.length_preference = 920

\* C11: genre_match is (number of members whose liked genres contain the
\* candidate's genre) / (number of members) * 100, each member counted once
\* however often the genre is listed, and 50 without members.
C11_GenreMatchShare ==
    Len(ret) = 1 =>
      LET g == ret[1].score_breakdown.genre_match
          n == Len(arg_members)
          k == Cardinality({ i \in 1..n :
                   \E j \in 1..Len(arg_members[i].liked_genres) :
                     arg_members[i].liked_genres[j] = arg_book.genre })
      IN /\ g.den > 0
         /\ n = 0 => g.num = 50 * g.den
         /\ n > 0 => g.num * n = 100 * k * g.den

\* C11 witness: three members, two of them like the candidate's genre and
\* one of these lists it twice; genre_match is 200/3.
C11_Witness ==
    /\ Len(ret) = 1
    /\ Len(arg_members) = 3
    /\ \E i \in 1..3 :
         Cardinality({ j \in 1..Len(arg_members[i].liked_genres) :
             arg_members[i].liked_genres[j] = arg_book.genre }) = 2
    /\ 3 * ret[1].score_breakdown.genre_match.num
         = 200 * ret[1].score_breakdown.genre_match.den

\* C12 (the claim as stated): a second call of get_recommendations with the
\* same top_n on the same store (no write since the first call began)
\* returns the identical list, whatever the two queries on reading_history
\* answer the second time.
C12_SameStoreSameList ==
    [][ (pc = "l73" /\ pc' = "done" /\ stores_seen = {}) =>
          \A h \in get_reading_history, l \in get_last_n_genres(2) :
            RankAndTruncate(
                apply_hard_constraints(get_books, h, l,
                                       get_vetoes(get_current_round)),
                get_members, h, top_n') = result' ]_vars

\* C13: a step of the engine (a read of get_recommendations, the filter and
\* the scoring it runs, get_genres_from_pool, and their returns) leaves the
\* four tables as they were, and the filter and the scoring leave the pool,
\* the members and the history they were passed as they were.
C13_EngineLeavesStore ==
    [][ (pc' # pc) =>
          /\ members' = members
          /\ books' = books
          /\ reading_history' = reading_history
          /\ vetoes' = vetoes
          /\ (pc' = "done") =>
               /\ all_books' = all_books
               /\ members_r' = members_r
               /\ history_r' = history_r ]_vars

\* C13 witness: a call has run on a store with rows in all four tables, has
\* removed a book and returned another.
C13_Witness ==
    /\ pc = "done"
    /\ members # <<>>
    /\ reading_history # <<>>
    /\ vetoes # {}
    /\ Len(eligible_books) < Len(all_books)
    /\ Len(result) >= 1
    /\ all_books = books

\* C14: in every reachable store state get_current_round is 1 when the
\* history is empty and otherwise the largest round number of any history
\* entry, plus 1.
C14_CurrentRound ==
    /\ reading_history = <<>> => get_current_round = 1
    /\ reading_history # <<>> =>
         /\ \E i \in 1..Len(reading_history) :
              reading_history[i].round_number = get_current_round - 1
         /\ \A i \in 1..Len(reading_history) :
              reading_history[i].round_number < get_current_round

\* C14 witness: three history entries, two of them of the same round; the
\* call read round 3.
C14_Witness ==
    /\ pc = "done"
    /\ conc_writes = 0
    /\ Len(reading_history) = 3
    /\ current_round = 3

\* The add_veto calls made so far for this member and round.
VetoCallsFor(m, r) ==
    { i \in 1..Len(veto_calls) :
        veto_calls[i].member_id = m /\ veto_calls[i].round_number = r }

\* C15: after any sequence of add_veto calls the store holds, for each
\* (member, round), no exclusion if add_veto was never called for the pair
\* and otherwise exactly one, with the genre of the latest call for the
\* pair; so a call leaves the exclusions of other members and rounds alone.
C15_OneVetoPerMemberRound ==
    /\ \A v \in vetoes : VetoCallsFor(v.member_id, v.round_number) # {}
    /\ \A m \in 1..Len(members), r \in 1..MaxVetoRound :
         LET rows == { v \in vetoes : v.member_id = m /\ v.round_number = r }
         IN IF VetoCallsFor(m, r) = {} THEN rows = {}
            ELSE rows = { [member_id |-> m,
                           genre |-> veto_calls[SetMax(VetoCallsFor(m, r))].genre,
                           round_number |-> r] }

\* C15 witness: a member vetoes one genre, another member vetoes for the
\* same round, then the first member vetoes the other genre for that round:
\* two rows, the first member's with the later genre.
C15_Witness ==
    /\ Len(veto_calls) = 3
    /\ veto_calls[1].member_id = veto_calls[3].member_id
    /\ veto_calls[1].round_number = veto_calls[3].round_number
    /\ veto_calls[1].genre # veto_calls[3].genre
    /\ veto_calls[2].member_id # veto_calls[1].member_id
    /\ veto_calls[2].round_number = veto_calls[1].round_number
    /\ Cardinality(vetoes) = 2
    /\ veto_calls[3] \in vetoes

\* The lists that hold the entries of h at the positions I, in every order.
RECURSIVE OrdersOf(_, _)
OrdersOf(h, I) ==
    IF I = {} THEN { <<>> }
    ELSE UNION { { <<h[i]>> \o rest : rest \in OrdersOf(h, I \ {i}) } : i \in I }

\* C16 (the claim as stated): for every reordering of the same history
\* entries the filter removes the same candidates and
\* calculate_diversity_bonus returns the same value.
C16_AnyOrderSameResult ==
    Len(ret) = 1 =>
      \A h \in OrdersOf(arg_history, 1..Len(arg_history)) :
        /\ apply_hard_constraints(<<arg_book>>, h, <<>>, {})
             = apply_hard_constraints(<<arg_book>>, arg_history, <<>>, {})
        /\ calculate_diversity_bonus(arg_book, h)
             = ret[1].score_breakdown.diversity_bonus

\* C17: get_recommendations never ends in an error state: the call never
\* raises, and on every store content (empty pool, no members, empty
\* history, every book excluded, ...) its queries have an answer and it
\* comes back with a list of scored books, each score well defined; the
\* list is empty exactly when no book survives the filter.
C17_AlwaysReturnsList ==
    /\ pc # "raised"
    /\ get_reading_history # {}
    /\ get_last_n_genres(2) # {}
    /\ pc = "done" =>
         /\ DOMAIN result = 1..Len(result)
         /\ \A i \in 1..Len(result) :
              /\ result[i].score_breakdown.genre_match.den > 0
              /\ result[i].score \in 0..10000
              /\ \E k \in 1..Len(eligible_books) :
                   eligible_books[k].id = result[i].id
         /\ (result = <<>>) <=> (eligible_books = <<>>)

\* C18: an exclusion bans its genre for its own round only.  When the
\* filter returns, an exclusion recorded for a round other than the current
\* round of the store (a round that a recorded selection has closed, in
\* particular) removes no book: a pool book that is unread, whose genre is
\* not among the last two and is not excluded for the current round is in
\* the filter's output.
C18_VetoOfItsRoundOnly ==
    [][ (pc = "l73" /\ pc' = "done") =>
          \A v \in vetoes, i \in 1..Len(all_books) :
            ( /\ v.round_number # get_current_round
              /\ all_books[i].genre = v.genre
              /\ \A j \in 1..Len(history_r) :
                   history_r[j].book_id # all_books[i].id
              /\ all_books[i].genre \notin Range(last_2_genres)
              /\ \A w \in vetoes :
                   w.round_number = get_current_round => w.genre # v.genre )
              => \E k \in 1..Len(eligible_books') :
                   eligible_books'[k] = all_books[i] ]_vars

\* C19 as stated: over any sequence of add_member, add_book, add_veto and
\* mark_book_as_read calls the value of get_current_round never decreases,
\* and a call that records a selection for the current round raises it by
\* exactly 1.
C19_RoundNeverDecreases ==
    [][ /\ get_current_round' >= get_current_round
        /\ ( /\ Len(reading_history') = Len(reading_history) + 1
             /\ \E i \in 1..Len(reading_history') :
                  reading_history'[i].round_number = get_current_round )
             => get_current_round' = get_current_round + 1 ]_vars

\* C19, amended: the same over the calls whose round numbers are not
\* negative (no entry of the history after the call has a round number
\* below 0).
C19_RoundNeverDecreasesFromZero ==
    [][ (\A i \in 1..Len(reading_history') :
           reading_history'[i].round_number >= 0) =>
          /\ get_current_round' >= get_current_round
          /\ ( /\ Len(reading_history') = Len(reading_history) + 1
               /\ \E i \in 1..Len(reading_history') :
                    reading_history'[i].round_number = get_current_round )
               => get_current_round' = get_current_round + 1 ]_vars

\* C19 witness: selections were recorded for rounds 0 and 1 and one more
\* for a round already closed; the current round is 2.
C19_Witness ==
    /\ Len(reading_history) = 3
    /\ get_current_round = 2
    /\ reading_history[1].round_number = 0
    /\ reading_history[2].round_number = 0

\* The current round of the store state S (S = <<members, books,
\* reading_history, vetoes>>).
CurrentRoundOn(S) ==
    IF Len(S[3]) = 0 THEN 1
    ELSE SetMax({ S[3][i].round_number : i \in 1..Len(S[3]) }) + 1

\* The orders ORDER BY round_number DESC may give for the rows I of the
\* reading history of the store state S, each row joined with its book.
RECURSIVE HistoryOrdersOn(_, _)
HistoryOrdersOn(S, I) ==
    IF I = {} THEN { <<>> }
    ELSE LET top == SetMax({ S[3][i].round_number : i \in I })
         IN UNION { { << [book_id |-> S[3][i].book_id,
                          round_number |-> S[3][i].round_number,
                          genre |-> S[2][S[3][i].book_id].genre] >> \o rest
                        : rest \in HistoryOrdersOn(S, I \ {i}) }
                    : i \in { j \in I : S[3][j].round_number = top } }

\* The genres vetoed in the store state S for its current round.
VetoedOn(S) ==
    { v.genre : v \in { w \in S[4] : w.round_number = CurrentRoundOn(S) } }

\* The lists get_recommendations(n) can return when all six of its reads see
\* the one store state S (rows of equal round number in any order).
ListsOn(S, n) ==
    { RankAndTruncate(
          apply_hard_constraints(S[2], h,
                                 [i \in 1..Min(2, Len(l)) |-> l[i].genre],
                                 VetoedOn(S)),
          S[1], h, n)
        : h \in HistoryOrdersOn(S, 1..Len(S[3])),
          l \in HistoryOrdersOn(S, 1..Len(S[3])) }

\* No book is in two entries of the history h, and no round number is.
NoRepeat(h) ==
    \A i, j \in 1..Len(h) :
      i # j => /\ h[i].book_id # h[j].book_id
               /\ h[i].round_number # h[j].round_number

\* C20: when every selection is recorded for the current round and for a
\* book of the get_recommendations output computed on the store as it is at
\* that moment, no book is in more than one history entry and no two
\* history entries have the same round number: in every store whose history
\* has no such repeat, recording a book of that output for the current round
\* leaves a history without repeat.  (The history is empty to begin with.)
C20_NoRepeatedSelection ==
    (tables_exist /\ NoRepeat(reading_history)) =>
      \A l \in ListsOn(store, DEFAULT_TOP_N) :
        \A i \in 1..Len(l) :
          NoRepeat(InsertRow(reading_history,
                             [book_id |-> l[i].id,
                              round_number |-> get_current_round]))

\* C20 witness: three selections recorded, each of a new book and for a new
\* round; the genre of the book picked first is no longer among the last
\* two, so that being in the history is all that keeps it out of the next
\* list.
C20_Witness ==
    /\ Len(reading_history) = 3
    /\ NoRepeat(reading_history)
    /\ get_current_round = 4
    /\ \E i \in 1..3 :
         /\ reading_history[i].round_number = 1
         /\ \A l \in get_last_n_genres(2) :
              books[reading_history[i].book_id].genre \notin Range(l)

\* The number of entries of the history the call read that precede the first
\* entry of genre g (the list is most recent first); g occurs in it.
EntriesMoreRecentThan(g) ==
    (CHOOSE i \in 1..Len(history_r) :
        /\ history_r[i].genre = g
        /\ \A j \in 1..(i - 1) : history_r[j].genre # g) - 1

\* C21 (the claim as stated): every returned book whose genre occurs in the
\* history has at least two history entries more recent than the most
\* recent entry of its genre (k >= 2), and so has diversity_bonus 0 only
\* when k = 2 (for a call during which no write committed).
C21_ReturnedGenreAtLeastThirdBack ==
    [][ (pc = "l73" /\ pc' = "done" /\ stores_seen = {}) =>
          \A i \in 1..Len(result') :
            (\E j \in 1..Len(history_r) : history_r[j].genre = result'[i].genre)
              => /\ EntriesMoreRecentThan(result'[i].genre) >= 2
                 /\ result'[i].score_breakdown.diversity_bonus = 0
                      => EntriesMoreRecentThan(result'[i].genre) = 2 ]_vars

\* C22: when mark_book_as_read or add_veto commits between the reads of one
\* get_recommendations call, the returned list still equals the list computed
\* from one single store state that existed between the start and the end of
\* the call.
C22_ListOfOneSeenStore ==
    [][ (pc = "l73" /\ pc' = "done") =>
          \E S \in StoresSeen : result' \in ListsOn(S, top_n') ]_vars

\* C22, its "in particular": the returned list holds no book that is in the
\* history, in a last-2 genre or vetoed in that one store state.
C22_NoneExcludedInOneSeenStore ==
    [][ (pc = "l73" /\ pc' = "done") =>
          \E S \in StoresSeen :
            \E h \in HistoryOrdersOn(S, 1..Len(S[3])) :
              \A i \in 1..Len(result') :
                /\ \A j \in 1..Len(h) : h[j].book_id # result'[i].id
                /\ \A j \in 1..Min(2, Len(h)) : h[j].genre # result'[i].genre
                /\ result'[i].genre \notin VetoedOn(S) ]_vars

====
